---- MODULE Spec2Model ----
(***************************************************************************)
(* Model of the ingest-and-persist pipeline of the Bigtable geyser plugin: *)
(*   - the fork-aware account history batcher                              *)
(*     (src/src/parallel_bigtable_client/accounts_history.rs),             *)
(*   - the dispatcher, bounded work queue and worker pool                  *)
(*     (src/src/parallel_bigtable_client.rs, .../account.rs, .../slot.rs). *)
(***************************************************************************)
EXTENDS Integers, Sequences, FiniteSets, TLC

(***************************************************************************)
(* Bounds of the model.                                                    *)
(***************************************************************************)
\* slots of the batcher are 1..MaxSlot; 0 is the root every chain ends at.
\* The slots the host reports are far below u64::MAX, so slot + 1 in
\* extract_chain_of does not overflow.
MaxSlot == 3
\* most account updates pending in the batcher at one time
MaxUpdates == 3

\* worker threads of the general pipeline model (config.threads)
NumWorkers == 2
\* capacity of the work queue in the general pipeline model; the code passes
\* MAX_ASYNC_REQUESTS = 40960 to bounded()
QueueCapacity == 2
\* config.batch_size of the general pipeline model
BatchSize == 2
\* largest config.batch_size of the account batching model (0 is included)
MaxBatchSize == 3
\* most account updates the host offers in the account batching model
MaxBatchItems == 4
\* longest run of account updates handed to update_accounts_batch at once
MaxRun == 2
\* most account_history rows written in the row key model
MaxKeyWrites == 2
\* most slot status updates the host offers in the slot status model
MaxSlotUpdates == 3
\* most account updates the host offers in the model with fair scheduling
MaxLiveItems == 3
\* most work items the host offers in one behaviour
MaxItems == 3

Slots == 1..MaxSlot
Pubkeys == {1, 2}
WriteVersions == {1, 2}

(***************************************************************************)
(* State.                                                                  *)
(***************************************************************************)
VARIABLES
    \* AccountsHistoryBatcher
    updates,            \* AccountsHistoryBatcher.updates: Vec<DbAccountInfo>
    parent_map,         \* SlotGraph.parent_map: BTreeMap<u64, u64>
    debug_assertions,   \* whether the build keeps debug_assert_eq!
    panicked,           \* the debug assertion of update_parent has fired
    last                \* the last batcher operation and what it produced

VARIABLES
    \* configuration, fixed by ParallelBigtableClient::new
    capacity,                   \* bound of the channel
    batch_size,                 \* BufferedBigtableClient.batch_size
    panic_on_db_errors,         \* config.panic_on_db_errors
    do_work_on_startup,         \* ParallelBigtableClient.do_work_on_startup
    \* shared between the host thread and the workers
    queue,                      \* items in the bounded channel, oldest first
    exit_worker,                \* ParallelBigtableClient.exit_worker
    is_startup_done,            \* ParallelBigtableClient.is_startup_done
    startup_done_count,         \* ParallelBigtableClient.startup_done_count
    initialized_worker_count,   \* ParallelBigtableClient.initialized_worker_count
    aborted,                    \* abort() has ended the process
    \* host thread
    workers,                    \* ParallelBigtableClient.workers (join handles)
    hostPc,                     \* where the host thread is
    work_items,                 \* every work item offered so far and its fate
    notify_returned,            \* notify_end_of_startup() has returned
    \* worker threads
    wpc,                        \* where each worker thread is
    worker_is_startup_done,     \* BigtableClientWorker.is_startup_done
    pending_account_updates,    \* BufferedBigtableClient.pending_account_updates
    inflight,                   \* the remote write each worker is blocked in
    writes                      \* the remote writes that have completed

batcherVars == <<updates, parent_map, debug_assertions, panicked, last>>

configVars == <<capacity, batch_size, panic_on_db_errors, do_work_on_startup>>

sharedVars == <<queue, exit_worker, is_startup_done, startup_done_count,
                initialized_worker_count, aborted>>

hostVars == <<workers, hostPc, work_items, notify_returned>>

workerVars == <<wpc, worker_is_startup_done, pending_account_updates, inflight, writes>>

pipelineVars == <<configVars, sharedVars, hostVars, workerVars>>

vars == <<batcherVars, pipelineVars>>

(***************************************************************************)
(* Sequence helpers.                                                       *)
(***************************************************************************)
Range(s) == {s[i] : i \in DOMAIN s}

\* number of occurrences of x in s
Count(s, x) == Cardinality({i \in DOMAIN s : s[i] = x})

\* s and t hold the same elements with the same multiplicities
SameBag(s, t) ==
    /\ Len(s) = Len(t)
    /\ \A x \in Range(s) \cup Range(t) : Count(s, x) = Count(t, x)

RECURSIVE Flatten(_)
Flatten(ss) == IF ss = << >> THEN << >> ELSE Head(ss) \o Flatten(Tail(ss))

\* the subsequence of s whose elements satisfy membership in the set keep
RECURSIVE SelectIn(_, _)
SelectIn(s, keep) ==
    IF s = << >> THEN << >>
    ELSE IF Head(s) \in keep THEN <<Head(s)>> \o SelectIn(Tail(s), keep)
         ELSE SelectIn(Tail(s), keep)

(***************************************************************************)
(* DbAccountInfo, as far as the batcher reads it.                          *)
(***************************************************************************)
DbAccountInfo(slot, pubkey, write_version, lamports) ==
    [slot |-> slot, pubkey |-> pubkey, write_version |-> write_version,
     lamports |-> lamports]

\* order_key that leaves the write version out
order_key_without_write_version(acc) == <<acc.slot, acc.pubkey>>

\* AccountsHistoryBatcher::order_key: (slot, pubkey, write_version)
order_key(acc) == <<acc.slot, acc.pubkey, acc.write_version>>

\* AccountsHistoryBatcher::batch_key: (slot, pubkey)
batch_key(acc) == <<acc.slot, acc.pubkey>>

\* is_same_batch comparing the pubkey only, not the slot
is_same_batch_pubkey_only(current_key, key) ==
    current_key[2] = key[2]

\* AccountsHistoryBatcher::is_same_batch
is_same_batch(current_key, key) ==
    current_key[1] = key[1] /\ current_key[2] = key[2]

\* Ord on tuples of integers: lexicographic
RECURSIVE TupleLess(_, _)
TupleLess(a, b) ==
    IF a = << >> \/ b = << >> THEN a = << >> /\ b # << >>
    ELSE IF Head(a) # Head(b) THEN Head(a) < Head(b)
         ELSE TupleLess(Tail(a), Tail(b))

TupleLeq(a, b) == a = b \/ TupleLess(a, b)

\* sort_unstable_by(order_key): every arrangement of s that is ordered by
\* order_key; elements with equal keys may come out in any order
IndexPerms(n) ==
    {p \in [1..n -> 1..n] : \A i, j \in 1..n : i # j => p[i] # p[j]}

sort_unstable_by(s) ==
    {[i \in 1..Len(s) |-> s[p[i]]] : p \in
        {q \in IndexPerms(Len(s)) :
            \A i \in 1..(Len(s) - 1) :
                TupleLeq(order_key(s[q[i]]), order_key(s[q[i + 1]]))}}

(***************************************************************************)
(* SlotGraph.                                                              *)
(***************************************************************************)
\* SlotGraph::update_parent: BTreeMap::insert replaces the value of the key
update_parent(map, slot, parent) ==
    [s \in (DOMAIN map) \cup {slot} |-> IF s = slot THEN parent ELSE map[s]]

\* the debug_assert_eq!(prev, parent) of update_parent fails
update_parent_asserts(map, slot, parent) ==
    slot \in DOMAIN map /\ map[slot] # parent

\* a split at slot instead of slot + 1: the edge of slot itself stays
split_off_kept_from_slot(map, slot) ==
    [s \in {k \in DOMAIN map : k >= slot} |-> map[s]]

\* split_off(&(slot + 1)) and swap: the entries that stay in the graph
split_off_kept(map, slot) ==
    [s \in {k \in DOMAIN map : k >= slot + 1} |-> map[s]]

\* ... and the entries that were removed
split_off_removed(map, slot) ==
    [s \in {k \in DOMAIN map : k < slot + 1} |-> map[s]]

\* the loop of extract_chain_of over removed.iter().rev(): keys in descending
\* order, from key k downwards; cur is the slot the walk stands at
RECURSIVE chain_walk(_, _, _, _)
chain_walk(removed, k, cur, result) ==
    IF k < 0 THEN result
    ELSE IF k \in DOMAIN removed /\ cur = k
         THEN chain_walk(removed, k - 1, removed[k], result \cup {removed[k]})
         ELSE chain_walk(removed, k - 1, cur, result)

\* extract_chain_of taking every slot up to slot as committed
extract_chain_of_whole_window(map, slot) == 0..slot

\* extract_chain_of taking every removed edge, whether or not the walk from
\* slot reaches it
extract_chain_of_every_edge(map, slot) ==
    {slot} \cup DOMAIN split_off_removed(map, slot)
           \cup Range(split_off_removed(map, slot))

\* SlotGraph::extract_chain_of: the returned HashSet
extract_chain_of(map, slot) ==
    chain_walk(split_off_removed(map, slot), slot, slot, {slot})

(***************************************************************************)
(* AccountsHistoryBatcher::flush.                                          *)
(***************************************************************************)
\* a drain window that takes every pending update
drain_end_everything(s, slot) == Len(s)

\* position(|u| u.slot > slot).unwrap_or(len), as a count of drained items
RECURSIVE drain_end(_, _)
drain_end(s, slot) ==
    IF s = << >> \/ Head(s).slot > slot THEN 0
    ELSE 1 + drain_end(Tail(s), slot)

\* a drain that removes nothing from updates
drain_rest_keeps_all(s, n) == s

\* updates once the iterator of drain(..drain_end) is dropped, whether the
\* loop ran to its end or returned early: the drained range is gone
drain_rest(s, n) == SubSeq(s, n + 1, Len(s))

\* send_nonempty without the is_empty test
send_always(st, failAt) ==
    [st EXCEPT !.batch = << >>,
               !.calls = Append(st.calls, st.batch),
               !.err = (Len(st.calls) + 1 = failAt)]

\* send_nonempty: hands a non-empty batch to batch_cb; the callback fails on
\* its failAt-th call (0: never).  st = [batch, key, calls, err]
send_nonempty(st, failAt) ==
    IF st.batch = << >> THEN st
    ELSE [st EXCEPT !.batch = << >>,
                    !.calls = Append(st.calls, st.batch),
                    !.err = (Len(st.calls) + 1 = failAt)]

\* a loop that drops the result of send_nonempty instead of returning it
\* with `?`: it goes on after the callback has failed
RECURSIVE flush_loop_ignoring_error(_, _, _, _)
flush_loop_ignoring_error(items, notified_slots, st, failAt) ==
    IF items = << >> THEN send_nonempty(st, failAt)
    ELSE LET item == Head(items) IN
         IF item.slot \notin notified_slots
         THEN flush_loop_ignoring_error(Tail(items), notified_slots, st, failAt)
         ELSE IF ~is_same_batch(st.key, batch_key(item))
              THEN flush_loop_ignoring_error(Tail(items), notified_slots,
                       [send_nonempty(st, failAt) EXCEPT !.key = batch_key(item),
                                                         !.batch = <<item>>], failAt)
              ELSE flush_loop_ignoring_error(Tail(items), notified_slots,
                       [st EXCEPT !.batch = Append(st.batch, item)], failAt)

\* the for loop over updates.drain(..drain_end) and the trailing send_nonempty
RECURSIVE flush_loop(_, _, _, _)
flush_loop(items, notified_slots, st, failAt) ==
    IF st.err THEN st
    ELSE IF items = << >> THEN send_nonempty(st, failAt)
    ELSE LET item == Head(items) IN
         IF item.slot \notin notified_slots
         THEN flush_loop(Tail(items), notified_slots, st, failAt)
         ELSE IF ~is_same_batch(st.key, batch_key(item))
              THEN LET sent == send_nonempty(st, failAt) IN
                   IF sent.err THEN sent
                   ELSE flush_loop(Tail(items), notified_slots,
                            [sent EXCEPT !.key = batch_key(item),
                                         !.batch = <<item>>], failAt)
              ELSE flush_loop(Tail(items), notified_slots,
                       [st EXCEPT !.batch = Append(st.batch, item)], failAt)

\* let mut batch = vec![]; let mut key = (0, vec![]);
flush_start == [batch |-> << >>, key |-> <<0, 0>>, calls |-> << >>, err |-> FALSE]

(***************************************************************************)
(* Batcher operations.                                                     *)
(***************************************************************************)
\* last, when the last operation was not a flush
NoOp == [op |-> "none"]

\* what the operation before a flush was: the rooted slot and the number of
\* emit_batch calls of a flush, or no flush
Preceding ==
    IF last.op = "flush"
    THEN [flush |-> TRUE, slot |-> last.slot, emitted |-> Len(last.calls)]
    ELSE [flush |-> FALSE, slot |-> 0, emitted |-> 0]

\* the rooted slot of the most recent flush, 0 when there was none; only the
\* operations of SpecBatcherLate carry it over an add or update_slot_parent
RootedSlot ==
    IF last.op = "flush" THEN last.slot
    ELSE IF "rooted" \in DOMAIN last THEN last.rooted
    ELSE 0

\* last, when the last operation was not a flush and the rooted slot of the
\* most recent flush is kept
NoOpAfterFlush == [op |-> "none", rooted |-> RootedSlot]

\* add(value); record is what last becomes
AddRecording(value, record) ==
    /\ ~panicked
    /\ Len(updates) < MaxUpdates
    /\ updates' = Append(updates, value)
    /\ last' = record
    /\ UNCHANGED <<parent_map, debug_assertions, panicked>>
    /\ UNCHANGED pipelineVars

Add(value) == AddRecording(value, NoOp)

\* update_slot_parent(slot, parent); record is what last becomes
UpdateSlotParentRecording(slot, parent, record) ==
    /\ ~panicked
    /\ parent_map' = update_parent(parent_map, slot, parent)
    /\ panicked' = (debug_assertions /\ update_parent_asserts(parent_map, slot, parent))
    /\ last' = record
    /\ UNCHANGED <<updates, debug_assertions>>
    /\ UNCHANGED pipelineVars

UpdateSlotParent(slot, parent) == UpdateSlotParentRecording(slot, parent, NoOp)

\* flush(slot, batch_cb); sorted is the order sort_unstable_by leaves updates
\* in; last.failed is the call of batch_cb that returned Err (0: none did)
Flush(slot, failAt, sorted) ==
    /\ ~panicked
    /\ sorted \in sort_unstable_by(updates)
    /\ LET n == drain_end(sorted, slot)
           notified_slots == extract_chain_of(parent_map, slot)
           st == flush_loop(SubSeq(sorted, 1, n), notified_slots, flush_start, failAt)
       IN  /\ updates' = drain_rest(sorted, n)
           /\ parent_map' = split_off_kept(parent_map, slot)
           /\ last' = [op |-> "flush", slot |-> slot,
                       sorted |-> sorted, graph |-> parent_map,
                       calls |-> st.calls, follows |-> Preceding,
                       failed |-> IF failAt \in 1..Len(st.calls) THEN failAt ELSE 0,
                       result |-> IF st.err THEN "err" ELSE "ok"]
    /\ UNCHANGED <<debug_assertions, panicked>>
    /\ UNCHANGED pipelineVars

\* AccountsHistoryBatcher::default()
BatcherInit ==
    /\ updates = << >>
    /\ parent_map = << >>
    /\ panicked = FALSE
    /\ last = NoOp

AddStep ==
    \E s \in Slots, p \in Pubkeys, w \in WriteVersions :
        Add(DbAccountInfo(s, p, w, 1))

\* the host reports as parent a slot that precedes the slot
UpdateSlotParentStep ==
    \E s \in Slots : \E p \in 0..(s - 1) : UpdateSlotParent(s, p)

FlushStep ==
    \E sorted \in sort_unstable_by(updates) :
        \E s \in Slots, failAt \in 0..MaxUpdates : Flush(s, failAt, sorted)

NextBatcher == AddStep \/ UpdateSlotParentStep \/ FlushStep

\* no pipeline: the batcher is exercised on its own
PipelineIdle ==
    /\ capacity = 0 /\ batch_size = 0
    /\ panic_on_db_errors = FALSE /\ do_work_on_startup = TRUE
    /\ queue = << >> /\ exit_worker = FALSE /\ is_startup_done = FALSE
    /\ startup_done_count = 0 /\ initialized_worker_count = 0
    /\ aborted = FALSE
    /\ workers = << >> /\ hostPc = "ready" /\ work_items = << >>
    /\ notify_returned = FALSE
    /\ wpc = << >> /\ worker_is_startup_done = << >>
    /\ pending_account_updates = << >> /\ inflight = << >>
    /\ writes = {}

\* the batcher in a release build (debug_assert_eq! compiled out)
InitBatcher == BatcherInit /\ debug_assertions = FALSE /\ PipelineIdle

SpecBatcher == InitBatcher /\ [][NextBatcher]_vars

\* updates that agree in (slot, pubkey, write_version) and differ in content,
\* as tests::batcher adds them; no slot_graph edges, as in that test
AddTieStep ==
    \E s \in Slots, lamports \in {1, 2} : Add(DbAccountInfo(s, 1, 1, lamports))

NextBatcherTies == AddTieStep \/ FlushStep

SpecBatcherTies == InitBatcher /\ [][NextBatcherTies]_vars

\* updates that arrive late: the batcher with the rooted slot of the most
\* recent flush kept across add and update_slot_parent; one pubkey, one
\* write version
AddLateStep ==
    \E s \in Slots : AddRecording(DbAccountInfo(s, 1, 1, 1), NoOpAfterFlush)

UpdateSlotParentLateStep ==
    \E s \in Slots : \E p \in 0..(s - 1) :
        UpdateSlotParentRecording(s, p, NoOpAfterFlush)

NextBatcherLate == AddLateStep \/ UpdateSlotParentLateStep \/ FlushStep

SpecBatcherLate == InitBatcher /\ [][NextBatcherLate]_vars

\* the batcher in a debug build (debug_assert_eq! panics)
InitBatcherDebug == BatcherInit /\ debug_assertions = TRUE /\ PipelineIdle

SpecBatcherDebug == InitBatcherDebug /\ [][NextBatcher]_vars

(***************************************************************************)
(* u64 values at their full width: sixteen hexadecimal digits, the most    *)
(* significant first.                                                      *)
(***************************************************************************)
\* the width in {:016X}; a u64 has as many hexadecimal digits
HexWidth == 16

\* the u64 of a natural number below 16^7
u64(n) ==
    [i \in 1..HexWidth |->
        IF HexWidth - i >= 7 THEN 0 ELSE (n \div 16^(HexWidth - i)) % 16]

\* u64::MAX
u64_MAX == [i \in 1..HexWidth |-> 15]

\* 1 << 63
u64_HIGH_BIT == [i \in 1..HexWidth |-> IF i = 1 THEN 8 ELSE 0]

\* Ord on u64
u64_less(a, b) == TupleLess(a, b)

\* the borrow that digit i of a - b hands to the digits on its right
RECURSIVE sub_borrow(_, _, _)
sub_borrow(a, b, i) ==
    IF i = Len(a) THEN 0
    ELSE IF a[i + 1] - b[i + 1] - sub_borrow(a, b, i + 1) < 0 THEN 1 ELSE 0

\* a - b on u64 with overflow checks off: modulo 2^64
wrapping_sub(a, b) ==
    [i \in 1..Len(a) |-> (a[i] - b[i] - sub_borrow(a, b, i) + 16) % 16]

\* a - b on u64 overflows
sub_overflows(a, b) == u64_less(a, b)

\* the key without the complement: slot and write version as they are
without_complement(x) == x

\* !x on u64: the bitwise complement
not_u64(x) == [i \in 1..Len(x) |-> 15 - x[i]]

\* format!("{:016X}", x): sixteen upper-case hexadecimal digits, as character
\* codes ('0' is 48, 'A' is 65)
format_016X(x) ==
    [i \in 1..HexWidth |-> IF x[i] < 10 THEN 48 + x[i] ELSE 55 + x[i]]

\* the base58 alphabet of Pubkey's Display, as character codes:
\* 1-9, A-H, J-N, P-Z, a-k, m-z
Base58Alphabet ==
    [i \in 1..9 |-> 48 + i] \o [i \in 1..8 |-> 64 + i] \o [i \in 1..5 |-> 73 + i]
        \o [i \in 1..11 |-> 79 + i] \o [i \in 1..11 |-> 96 + i]
        \o [i \in 1..14 |-> 108 + i]

\* one byte is pushed into the base58 digits (least significant first):
\* every digit is multiplied by 256 and the carry is passed on
RECURSIVE base58_carry(_, _)
base58_carry(digits, carry) ==
    IF digits = << >>
    THEN IF carry = 0 THEN << >>
         ELSE <<carry % 58>> \o base58_carry(<< >>, carry \div 58)
    ELSE LET c == carry + Head(digits) * 256 IN
         <<c % 58>> \o base58_carry(Tail(digits), c \div 58)

\* the base58 digits of a byte string, least significant first
RECURSIVE base58_digits(_, _)
base58_digits(bytes, digits) ==
    IF bytes = << >> THEN digits
    ELSE base58_digits(Tail(bytes), base58_carry(digits, Head(bytes)))

\* the number of zero bytes a byte string starts with
RECURSIVE leading_zeros(_)
leading_zeros(bytes) ==
    IF bytes = << >> \/ Head(bytes) # 0 THEN 0 ELSE 1 + leading_zeros(Tail(bytes))

\* Pubkey::new(bytes).to_string(): the base58 text of the key, as character
\* codes: one '1' for every leading zero byte, then the digits of the rest,
\* most significant first
pubkey_to_string(pubkey) ==
    LET digits == base58_digits(pubkey, << >>)
                      \o [i \in 1..leading_zeros(pubkey) |-> 0]
        n == Len(digits)
    IN  [i \in 1..n |-> Base58Alphabet[digits[n + 1 - i] + 1]]

(***************************************************************************)
(* BufferedBigtableClient::update_accounts_batch.                          *)
(***************************************************************************)
\* impl From<&DbAccountInfo> for accounts::Account: every field in full;
\* updated_on is SystemTime::now().elapsed() in seconds, which is 0
AccountFrom(account) ==
    [pubkey |-> account.pubkey, owner |-> account.owner,
     lamports |-> account.lamports, slot |-> account.slot,
     executable |-> account.executable, rent_epoch |-> account.rent_epoch,
     data |-> account.data, write_version |-> account.write_version,
     updated_on |-> 0]

\* as_account_batch_item; the fields not named take Account::default()
as_account_batch_item(prev, next) ==
    [data |-> next.data,
     lamports |-> next.lamports,
     rent_epoch |-> wrapping_sub(prev.rent_epoch, next.rent_epoch),
     slot |-> wrapping_sub(next.slot, prev.slot),
     write_version |-> wrapping_sub(next.write_version, prev.write_version),
     updated_on |-> next.updated_since_epoch - prev.updated_since_epoch,
     pubkey |-> << >>, owner |-> << >>, executable |-> FALSE]

\* as_account_batch_item panics: a Duration subtraction below zero in every
\* build, a u64 subtraction below zero in a build with overflow checks
as_account_batch_item_panics(prev, next, overflow_checks) ==
    \/ next.updated_since_epoch < prev.updated_since_epoch
    \/ /\ overflow_checks
       /\ \/ sub_overflows(prev.rent_epoch, next.rent_epoch)
          \/ sub_overflows(next.slot, prev.slot)
          \/ sub_overflows(next.write_version, prev.write_version)

\* the row key of update_accounts_batch, as character codes ('/' is 47)
history_row_key(prev) ==
    pubkey_to_string(prev.pubkey) \o <<47>> \o format_016X(not_u64(prev.slot))
        \o <<47>> \o format_016X(not_u64(prev.write_version))

\* batch.accounts of update_accounts_batch
accounts_batch(accounts) ==
    [i \in 1..Len(accounts) |->
        IF i = 1 THEN AccountFrom(accounts[1])
        ELSE as_account_batch_item(accounts[i - 1], accounts[i])]

\* update_accounts_batch panics: accounts.first().unwrap() on an empty vector,
\* or as_account_batch_item on some pair
update_accounts_batch_panics(accounts, overflow_checks) ==
    \/ accounts = << >>
    \/ \E i \in 2..Len(accounts) :
          as_account_batch_item_panics(accounts[i - 1], accounts[i], overflow_checks)

\* update_accounts_batch(accounts); ok is the outcome of the remote write
UpdateAccountsBatch(accounts, ok) ==
    /\ ~panicked
    /\ IF update_accounts_batch_panics(accounts, debug_assertions)
       THEN /\ panicked' = TRUE
            /\ last' = [op |-> "update_accounts_batch", accounts |-> accounts,
                        key |-> << >>, batch |-> << >>, result |-> "panic"]
            /\ UNCHANGED writes
       ELSE /\ last' = [op |-> "update_accounts_batch", accounts |-> accounts,
                        key |-> history_row_key(accounts[1]),
                        batch |-> accounts_batch(accounts),
                        result |-> IF ok THEN "ok" ELSE "err"]
            /\ writes' = writes \cup
                  {[table |-> "account_history",
                    rows |-> <<[key |-> history_row_key(accounts[1]),
                                batch |-> accounts_batch(accounts)]>>,
                    worker |-> 0, ok |-> ok]}
            /\ UNCHANGED panicked
    /\ UNCHANGED <<updates, parent_map, debug_assertions>>
    /\ UNCHANGED <<configVars, sharedVars, hostVars, wpc, worker_is_startup_done,
                   pending_account_updates, inflight>>

\* the account updates of the differential encoding model
HistoryAccounts ==
    [pubkey : {<<1>>}, owner : {<<254>>}, executable : {TRUE},
     lamports : {400, 500}, data : {<<1, 2>>, <<3>>},
     rent_epoch : {u64(100), u64(101)}, slot : {u64(10), u64(11)},
     write_version : {u64(1), u64(2)}, updated_since_epoch : {1000, 1500}]

HistoryRuns == UNION {[1..n -> HistoryAccounts] : n \in 1..MaxRun}

\* one call of update_accounts_batch on a run of account updates
HistoryWriteStep ==
    /\ last = NoOp
    /\ \E accounts \in HistoryRuns, ok \in BOOLEAN : UpdateAccountsBatch(accounts, ok)

\* either build: overflow checks on (debug) or off (release)
InitHistoryWrite == BatcherInit /\ debug_assertions \in BOOLEAN /\ PipelineIdle

SpecHistoryWrite == InitHistoryWrite /\ [][HistoryWriteStep]_vars

\* slots and write versions of the row key model, over the whole u64 range
U64Samples ==
    {u64(0), u64(1), u64(9), u64(10), u64_HIGH_BIT, u64_MAX}

\* update_accounts_batch on a batch of one account update
RowKeyStep ==
    /\ Cardinality(writes) < MaxKeyWrites
    /\ \E pubkey \in {<<1>>, <<2>>}, slot \in U64Samples, write_version \in U64Samples :
          UpdateAccountsBatch(
              <<[pubkey |-> pubkey, owner |-> <<254>>, executable |-> FALSE,
                 lamports |-> 500, data |-> <<1, 2>>, rent_epoch |-> u64(100),
                 slot |-> slot, write_version |-> write_version,
                 updated_since_epoch |-> 1000]>>, TRUE)

InitRowKey == BatcherInit /\ debug_assertions = FALSE /\ PipelineIdle

SpecRowKey == InitRowKey /\ [][RowKeyStep]_vars

(***************************************************************************)
(* The pipeline: dispatcher (host thread), bounded channel, worker threads. *)
(***************************************************************************)
WorkerIds == DOMAIN wpc

\* the worker thread has returned from its closure: its Receiver is dropped
thread_finished(pc) == pc \in {"returned", "failed"}

\* a channel whose send() never notices that the Receivers are gone
NeverDisconnected == FALSE

\* every Receiver has been dropped: send() fails instead of blocking
Disconnected == \A w \in WorkerIds : thread_finished(wpc[w])

\* should_skip_work that never reads the end-of-startup flag
should_skip_work_ignoring_signal == ~do_work_on_startup

\* ParallelBigtableClient::should_skip_work
should_skip_work == ~do_work_on_startup /\ ~is_startup_done

\* a channel with no bound: unbounded() instead of bounded(MAX_ASYNC_REQUESTS)
channel_never_full(q, cap) == FALSE

\* a channel that takes one item more than its bound
channel_full_off_by_one(q, cap) == Len(q) > cap

\* the bounded channel holds as many items as bounded() allows
channel_is_full(q, cap) == Len(q) >= cap

\* when the host offered an item
HostPhase ==
    IF hostPc = "joined" THEN "after_join"
    ELSE IF notify_returned THEN "live" ELSE "startup"

WorkItem(kind, fate) ==
    [kind |-> kind, fate |-> fate, phase |-> HostPhase,
     after_notify |-> notify_returned]

\* a work item of which the model keeps no content
NoPayload == << >>

\* update_account / update_slot_status / log_transaction_info /
\* update_block_metadata of ParallelBigtableClient: skip, or build the work
\* item and send it; a send on a full channel leaves the host blocked.
\* payload is what the request carries besides its kind.
Enqueue(kind, payload) ==
    /\ ~aborted
    /\ hostPc \in {"ready", "joined"}
    /\ IF should_skip_work
       THEN /\ work_items' = Append(work_items, WorkItem(kind, "skipped") @@ payload)
            /\ UNCHANGED <<queue, hostPc>>
       ELSE IF Disconnected
       THEN /\ work_items' = Append(work_items, WorkItem(kind, "error") @@ payload)
            /\ UNCHANGED <<queue, hostPc>>
       ELSE IF ~channel_is_full(queue, capacity)
       THEN /\ work_items' = Append(work_items, WorkItem(kind, "queued") @@ payload)
            /\ queue' = Append(queue, Len(work_items) + 1)
            /\ UNCHANGED hostPc
       ELSE /\ work_items' = Append(work_items, WorkItem(kind, "blocked") @@ payload)
            /\ hostPc' = "send"
            /\ UNCHANGED queue
    /\ UNCHANGED batcherVars
    /\ UNCHANGED <<configVars, exit_worker, is_startup_done, startup_done_count,
                   initialized_worker_count, aborted, workers, notify_returned,
                   workerVars>>

Offer(kind) == Enqueue(kind, NoPayload)

\* the blocked send() returns: room was made, or the last Receiver was dropped
SendResume ==
    /\ ~aborted
    /\ hostPc = "send"
    /\ LET id == Len(work_items) IN
       IF Disconnected
       THEN /\ work_items' = [work_items EXCEPT ![id].fate = "error"]
            /\ UNCHANGED queue
       ELSE /\ ~channel_is_full(queue, capacity)
            /\ work_items' = [work_items EXCEPT ![id].fate = "queued"]
            /\ queue' = Append(queue, id)
    /\ hostPc' = "ready"
    /\ UNCHANGED batcherVars
    /\ UNCHANGED <<configVars, exit_worker, is_startup_done, startup_done_count,
                   initialized_worker_count, aborted, workers, notify_returned,
                   workerVars>>

UpdateAccount == Len(work_items) < MaxItems /\ Offer("account")

UpdateSlotStatus == Len(work_items) < MaxItems /\ Offer("slot")

LogTransactionInfo == Len(work_items) < MaxItems /\ Offer("tx")

UpdateBlockMetadata == Len(work_items) < MaxItems /\ Offer("block")

\* where the host thread is between its calls: join() has returned or not
HostBetweenCalls == IF exit_worker THEN "joined" ELSE "ready"

\* ParallelBigtableClient::notify_end_of_startup is entered, before or after
\* join(), for the first time or again
NotifyEndOfStartupBegin ==
    /\ ~aborted
    /\ hostPc \in {"ready", "joined"}
    /\ hostPc' = "notify_wait_empty"
    /\ UNCHANGED batcherVars
    /\ UNCHANGED <<configVars, sharedVars, workers, work_items, notify_returned,
                   workerVars>>

\* ... its first loop sees the channel empty and the flag is stored
NotifyQueueEmpty ==
    /\ ~aborted
    /\ hostPc = "notify_wait_empty"
    /\ queue = << >>
    /\ is_startup_done' = TRUE
    /\ hostPc' = "notify_wait_acks"
    /\ UNCHANGED batcherVars
    /\ UNCHANGED <<configVars, queue, exit_worker, startup_done_count,
                   initialized_worker_count, aborted, workers, work_items,
                   notify_returned, workerVars>>

\* notify_end_of_startup that returns once the flag is stored, without
\* waiting for the workers' acknowledgements
NotifyEndOfStartupReturnWithoutAcks ==
    /\ ~aborted
    /\ hostPc = "notify_wait_acks"
    /\ hostPc' = HostBetweenCalls
    /\ notify_returned' = TRUE
    /\ UNCHANGED batcherVars
    /\ UNCHANGED <<configVars, sharedVars, workers, work_items, workerVars>>

\* ... its second loop sees startup_done_count == initialized_worker_count
NotifyEndOfStartupReturn ==
    /\ ~aborted
    /\ hostPc = "notify_wait_acks"
    /\ startup_done_count = initialized_worker_count
    /\ hostPc' = HostBetweenCalls
    /\ notify_returned' = TRUE
    /\ UNCHANGED batcherVars
    /\ UNCHANGED <<configVars, sharedVars, workers, work_items, workerVars>>

\* ParallelBigtableClient::join: the exit flag is stored
JoinBegin ==
    /\ ~aborted
    /\ hostPc = "ready"
    /\ exit_worker' = TRUE
    /\ hostPc' = "join"
    /\ UNCHANGED batcherVars
    /\ UNCHANGED <<configVars, queue, is_startup_done, startup_done_count,
                   initialized_worker_count, aborted, workers, work_items,
                   notify_returned, workerVars>>

\* join that pops the handle and drops it without waiting for the thread
JoinWorkerWithoutWaiting ==
    /\ ~aborted
    /\ hostPc = "join"
    /\ workers # << >>
    /\ workers' = SubSeq(workers, 1, Len(workers) - 1)
    /\ UNCHANGED batcherVars
    /\ UNCHANGED <<configVars, sharedVars, hostPc, work_items, notify_returned,
                   workerVars>>

\* ... workers.pop() and worker.join() of a thread that has finished
JoinWorker ==
    /\ ~aborted
    /\ hostPc = "join"
    /\ workers # << >>
    /\ thread_finished(wpc[workers[Len(workers)]])
    /\ workers' = SubSeq(workers, 1, Len(workers) - 1)
    /\ UNCHANGED batcherVars
    /\ UNCHANGED <<configVars, sharedVars, hostPc, work_items, notify_returned,
                   workerVars>>

\* ... the list is empty and join returns
JoinReturn ==
    /\ ~aborted
    /\ hostPc = "join"
    /\ workers = << >>
    /\ hostPc' = "joined"
    /\ UNCHANGED batcherVars
    /\ UNCHANGED <<configVars, sharedVars, workers, work_items, notify_returned,
                   workerVars>>

\* the ParallelBigtableClient is dropped without join(): its Sender is
\* dropped, the handles are dropped and the threads run on detached
DropClient ==
    /\ ~aborted
    /\ hostPc = "ready"
    /\ hostPc' = "dropped"
    /\ UNCHANGED batcherVars
    /\ UNCHANGED <<configVars, sharedVars, workers, work_items, notify_returned,
                   workerVars>>

\* the Sender has been dropped: once the channel is empty recv_timeout
\* returns Err(Disconnected)
SenderDropped == hostPc = "dropped"

NoWrite == [table |-> "none", rows |-> << >>]

\* a channel that hands out its newest item first
channel_recv_newest_first(q) ==
    [item |-> q[Len(q)], rest |-> SubSeq(q, 1, Len(q) - 1)]

\* Receiver::recv_timeout on a non-empty channel: the oldest item leaves it
channel_recv(q) == [item |-> Head(q), rest |-> Tail(q)]

\* update_account that drains the buffer on every call
update_account_flush_every_call(pending, id, bsz) ==
    [pending |-> << >>, write |-> [table |-> "account", rows |-> Append(pending, id)]]

\* update_account that drains only once the buffer has grown past batch_size
update_account_late_flush(pending, id, bsz) ==
    LET pushed == Append(pending, id) IN
    IF Len(pushed) > bsz
    THEN [pending |-> << >>, write |-> [table |-> "account", rows |-> pushed]]
    ELSE [pending |-> pushed, write |-> NoWrite]

\* update_account that tests the length before it pushes
update_account_test_before_push(pending, id, bsz) ==
    IF Len(pending) = bsz
    THEN [pending |-> <<id>>, write |-> [table |-> "account", rows |-> pending]]
    ELSE [pending |-> Append(pending, id), write |-> NoWrite]

\* update_account that clones the buffer into the write and keeps it
update_account_keeps_batch(pending, id, bsz) ==
    LET pushed == Append(pending, id) IN
    IF Len(pushed) = bsz
    THEN [pending |-> pushed, write |-> [table |-> "account", rows |-> pushed]]
    ELSE [pending |-> pushed, write |-> NoWrite]

\* BufferedBigtableClient::update_account up to the remote call: the new
\* pending buffer and the multi-row write to issue, if any
update_account(pending, id, bsz) ==
    LET pushed == Append(pending, id) IN
    IF Len(pushed) = bsz
    THEN [pending |-> << >>, write |-> [table |-> "account", rows |-> pushed]]
    ELSE [pending |-> pushed, write |-> NoWrite]

\* BufferedBigtableClient::update_slot up to the remote call
update_slot(id) == [table |-> "slot", rows |-> <<id>>]

\* a thread that counts itself as initialized whether or not its client
\* could be constructed
WorkerConstructCountsFailures(w, ok) ==
    /\ ~aborted
    /\ wpc[w] = "spawned"
    /\ initialized_worker_count' = initialized_worker_count + 1
    /\ wpc' = [wpc EXCEPT ![w] = IF ok THEN "loop" ELSE "failed"]
    /\ UNCHANGED batcherVars
    /\ UNCHANGED <<configVars, queue, exit_worker, is_startup_done,
                   startup_done_count, aborted, hostVars, worker_is_startup_done,
                   pending_account_updates, inflight, writes>>

\* the spawned thread runs BigtableClientWorker::new
WorkerConstruct(w, ok) ==
    /\ ~aborted
    /\ wpc[w] = "spawned"
    /\ IF ok
       THEN /\ initialized_worker_count' = initialized_worker_count + 1
            /\ wpc' = [wpc EXCEPT ![w] = "loop"]
            /\ UNCHANGED aborted
       ELSE IF panic_on_db_errors
       THEN /\ aborted' = TRUE
            /\ UNCHANGED <<initialized_worker_count, wpc>>
       ELSE /\ wpc' = [wpc EXCEPT ![w] = "failed"]
            /\ UNCHANGED <<initialized_worker_count, aborted>>
    /\ UNCHANGED batcherVars
    /\ UNCHANGED <<configVars, queue, exit_worker, is_startup_done,
                   startup_done_count, hostVars, worker_is_startup_done,
                   pending_account_updates, inflight, writes>>

\* a loop that never reads the exit flag: loop { .. } instead of
\* while !exit_worker.load()
WorkerLoopIgnoringExit(w) ==
    /\ ~aborted
    /\ wpc[w] = "loop"
    /\ wpc' = [wpc EXCEPT ![w] = "recv"]
    /\ UNCHANGED batcherVars
    /\ UNCHANGED <<configVars, sharedVars, hostVars, worker_is_startup_done,
                   pending_account_updates, inflight, writes>>

\* do_work: while !exit_worker.load()
WorkerLoop(w) ==
    /\ ~aborted
    /\ wpc[w] = "loop"
    /\ wpc' = [wpc EXCEPT ![w] = IF exit_worker THEN "returned" ELSE "recv"]
    /\ UNCHANGED batcherVars
    /\ UNCHANGED <<configVars, sharedVars, hostVars, worker_is_startup_done,
                   pending_account_updates, inflight, writes>>

\* do_work: recv_timeout returns an item and the item is dispatched
WorkerRecv(w) ==
    /\ ~aborted
    /\ wpc[w] = "recv"
    /\ queue # << >>
    /\ queue' = channel_recv(queue).rest
    /\ LET id == channel_recv(queue).item
           kind == work_items[id].kind
       IN  IF kind = "account"
           THEN LET r == update_account(pending_account_updates[w], id, batch_size) IN
                /\ pending_account_updates' =
                      [pending_account_updates EXCEPT ![w] = r.pending]
                /\ inflight' = [inflight EXCEPT ![w] = r.write]
                /\ wpc' = [wpc EXCEPT ![w] = IF r.write = NoWrite THEN "loop" ELSE "rpc"]
           ELSE IF kind = "slot"
           THEN /\ inflight' = [inflight EXCEPT ![w] = update_slot(id)]
                /\ wpc' = [wpc EXCEPT ![w] = "rpc"]
                /\ UNCHANGED pending_account_updates
           ELSE \* BigtableClientWorker::log_transaction / update_block_metadata
                /\ wpc' = [wpc EXCEPT ![w] = "loop"]
                /\ UNCHANGED <<pending_account_updates, inflight>>
    /\ UNCHANGED batcherVars
    /\ UNCHANGED <<configVars, exit_worker, is_startup_done, startup_done_count,
                   initialized_worker_count, aborted, hostVars,
                   worker_is_startup_done, writes>>

\* a receive that blocks until an item arrives: recv() instead of
\* recv_timeout(500 ms)
WorkerRecvWithoutTimeout(w) ==
    /\ FALSE
    /\ UNCHANGED vars

\* do_work: recv_timeout returns Err(Timeout) on the empty channel
WorkerTimeout(w) ==
    /\ ~aborted
    /\ wpc[w] = "recv"
    /\ queue = << >>
    /\ ~SenderDropped
    /\ wpc' = [wpc EXCEPT ![w] = "timed_out"]
    /\ UNCHANGED batcherVars
    /\ UNCHANGED <<configVars, sharedVars, hostVars, worker_is_startup_done,
                   pending_account_updates, inflight, writes>>

\* do_work: recv_timeout returns Err(Disconnected): error!, abort() if
\* panic_on_db_errors, break, and the thread returns Ok(())
WorkerDisconnected(w) ==
    /\ ~aborted
    /\ wpc[w] = "recv"
    /\ queue = << >>
    /\ SenderDropped
    /\ IF panic_on_db_errors
       THEN aborted' = TRUE /\ UNCHANGED wpc
       ELSE wpc' = [wpc EXCEPT ![w] = "returned"] /\ UNCHANGED aborted
    /\ UNCHANGED batcherVars
    /\ UNCHANGED <<configVars, queue, exit_worker, is_startup_done,
                   startup_done_count, initialized_worker_count, hostVars,
                   worker_is_startup_done, pending_account_updates, inflight, writes>>

\* do_work, the Timeout arm: the shared flag is read after recv_timeout has
\* returned, whatever the channel holds by then
WorkerAcknowledge(w) ==
    /\ ~aborted
    /\ wpc[w] = "timed_out"
    /\ IF ~worker_is_startup_done[w] /\ is_startup_done
       THEN \* BigtableClientWorker::notify_end_of_startup returns Ok(())
            /\ worker_is_startup_done' = [worker_is_startup_done EXCEPT ![w] = TRUE]
            /\ startup_done_count' = startup_done_count + 1
       ELSE UNCHANGED <<worker_is_startup_done, startup_done_count>>
    /\ wpc' = [wpc EXCEPT ![w] = "loop"]
    /\ UNCHANGED batcherVars
    /\ UNCHANGED <<configVars, queue, exit_worker, is_startup_done,
                   initialized_worker_count, aborted, hostVars,
                   pending_account_updates, inflight, writes>>

\* a worker that leaves do_work when a remote write fails
WorkerRpcDoneStopsOnError(w, ok) ==
    /\ ~aborted
    /\ wpc[w] = "rpc"
    /\ writes' = writes \cup {[table |-> inflight[w].table, rows |-> inflight[w].rows,
                                worker |-> w, ok |-> ok]}
    /\ inflight' = [inflight EXCEPT ![w] = NoWrite]
    /\ wpc' = [wpc EXCEPT ![w] = IF ok THEN "loop" ELSE "returned"]
    /\ UNCHANGED batcherVars
    /\ UNCHANGED <<configVars, queue, exit_worker, is_startup_done,
                   startup_done_count, initialized_worker_count, aborted, hostVars,
                   worker_is_startup_done, pending_account_updates>>

\* put_protobuf_cells_with_retry returns to the worker
WorkerRpcDone(w, ok) ==
    /\ ~aborted
    /\ wpc[w] = "rpc"
    /\ writes' = writes \cup {[table |-> inflight[w].table, rows |-> inflight[w].rows,
                                worker |-> w, ok |-> ok]}
    /\ inflight' = [inflight EXCEPT ![w] = NoWrite]
    /\ IF ~ok /\ panic_on_db_errors
       THEN aborted' = TRUE /\ UNCHANGED wpc
       ELSE wpc' = [wpc EXCEPT ![w] = "loop"] /\ UNCHANGED aborted
    /\ UNCHANGED batcherVars
    /\ UNCHANGED <<configVars, queue, exit_worker, is_startup_done,
                   startup_done_count, initialized_worker_count, hostVars,
                   worker_is_startup_done, pending_account_updates>>

\* what ParallelBigtableClient::new returns once the threads are spawned:
\* Ok(Self { .. }), there is no other return
new_returns == "Ok"

\* the state ParallelBigtableClient::new returns in, with n spawned threads
PipelineInit(n) ==
    /\ queue = << >>
    /\ exit_worker = FALSE
    /\ is_startup_done = FALSE
    /\ startup_done_count = 0
    /\ initialized_worker_count = 0
    /\ aborted = FALSE
    /\ workers = [i \in 1..n |-> i]
    /\ hostPc = "ready"
    /\ work_items = << >>
    /\ notify_returned = FALSE
    /\ wpc = [w \in 1..n |-> "spawned"]
    /\ worker_is_startup_done = [w \in 1..n |-> FALSE]
    /\ pending_account_updates = [w \in 1..n |-> << >>]
    /\ inflight = [w \in 1..n |-> NoWrite]
    /\ writes = {}

\* the batcher is not wired into the worker: it stays as constructed
BatcherIdle == BatcherInit /\ debug_assertions = FALSE

Init ==
    /\ capacity = QueueCapacity
    /\ batch_size = BatchSize
    /\ panic_on_db_errors \in BOOLEAN
    /\ do_work_on_startup \in BOOLEAN
    /\ PipelineInit(NumWorkers)
    /\ BatcherIdle

HostStep ==
    \/ UpdateAccount
    \/ UpdateSlotStatus
    \/ LogTransactionInfo
    \/ UpdateBlockMetadata
    \/ SendResume
    \/ NotifyEndOfStartupBegin
    \/ NotifyQueueEmpty
    \/ NotifyEndOfStartupReturn
    \/ JoinBegin
    \/ JoinWorker
    \/ JoinReturn
    \/ DropClient

WorkerConstructStep == \E w \in WorkerIds, ok \in BOOLEAN : WorkerConstruct(w, ok)

WorkerLoopStep == \E w \in WorkerIds : WorkerLoop(w)

WorkerRecvStep == \E w \in WorkerIds : WorkerRecv(w)

WorkerTimeoutStep == \E w \in WorkerIds : WorkerTimeout(w)

WorkerAcknowledgeStep == \E w \in WorkerIds : WorkerAcknowledge(w)

WorkerDisconnectedStep == \E w \in WorkerIds : WorkerDisconnected(w)

WorkerRpcDoneStep == \E w \in WorkerIds, ok \in BOOLEAN : WorkerRpcDone(w, ok)

WorkerStep ==
    \/ WorkerConstructStep
    \/ WorkerLoopStep
    \/ WorkerRecvStep
    \/ WorkerTimeoutStep
    \/ WorkerAcknowledgeStep
    \/ WorkerDisconnectedStep
    \/ WorkerRpcDoneStep

Next == HostStep \/ WorkerStep

Spec == Init /\ [][Next]_vars

\* the pipeline under the default configuration: write_during_startup = true,
\* panic_on_db_errors = false
InitDefault ==
    /\ capacity = QueueCapacity
    /\ batch_size = BatchSize
    /\ panic_on_db_errors = FALSE
    /\ do_work_on_startup = TRUE
    /\ PipelineInit(NumWorkers)
    /\ BatcherIdle

SpecDefault == InitDefault /\ [][Next]_vars

\* the backpressure scenario: queue capacity 4, one worker, batch_size = 1,
\* ten account updates offered back to back
InitBackpressure ==
    /\ capacity = 4
    /\ batch_size = 1
    /\ panic_on_db_errors = FALSE
    /\ do_work_on_startup = TRUE
    /\ PipelineInit(1)
    /\ BatcherIdle

ScenarioUpdateAccount == Len(work_items) < 10 /\ Offer("account")

NextBackpressure ==
    \/ ScenarioUpdateAccount
    \/ SendResume
    \/ DropClient
    \/ WorkerStep

SpecBackpressure == InitBackpressure /\ [][NextBackpressure]_vars

\* account batching: one worker, account updates only, every batch_size
InitBatching ==
    /\ capacity = QueueCapacity
    /\ batch_size \in 0..MaxBatchSize
    /\ panic_on_db_errors = FALSE
    /\ do_work_on_startup = TRUE
    /\ PipelineInit(1)
    /\ BatcherIdle

BatchingUpdateAccount == Len(work_items) < MaxBatchItems /\ Offer("account")

NextBatching ==
    \/ BatchingUpdateAccount
    \/ SendResume
    \/ DropClient
    \/ WorkerStep

SpecBatching == InitBatching /\ [][NextBatching]_vars

\* slot status updates: one worker, slot updates only, any status order
SlotStatus == {"processed", "confirmed", "rooted"}

UpdateSlotStatusOf ==
    /\ Len(work_items) < MaxSlotUpdates
    /\ \E slot \in {1, 2}, status \in SlotStatus :
          Enqueue("slot", [slot |-> slot, status |-> status])

InitSlotStatus ==
    /\ capacity = QueueCapacity
    /\ batch_size = BatchSize
    /\ panic_on_db_errors = FALSE
    /\ do_work_on_startup = TRUE
    /\ PipelineInit(1)
    /\ BatcherIdle

NextSlotStatus ==
    \/ UpdateSlotStatusOf
    \/ SendResume
    \/ DropClient
    \/ WorkerStep

SpecSlotStatus == InitSlotStatus /\ [][NextSlotStatus]_vars

\* the pipeline under fair scheduling: every thread that can take a step
\* eventually takes one; client construction and remote writes terminate.
\* The host offers account updates and may call notify_end_of_startup and join.
LiveUpdateAccount == Len(work_items) < MaxLiveItems /\ Offer("account")

NextLive ==
    \/ LiveUpdateAccount
    \/ SendResume
    \/ NotifyEndOfStartupBegin
    \/ NotifyQueueEmpty
    \/ NotifyEndOfStartupReturn
    \/ JoinBegin
    \/ JoinWorker
    \/ JoinReturn
    \/ DropClient
    \/ WorkerStep

\* the steps of worker thread w
WorkerThread(w) ==
    \/ \E ok \in BOOLEAN : WorkerConstruct(w, ok)
    \/ WorkerLoop(w)
    \/ WorkerRecv(w)
    \/ WorkerTimeout(w)
    \/ WorkerAcknowledge(w)
    \/ WorkerDisconnected(w)
    \/ \E ok \in BOOLEAN : WorkerRpcDone(w, ok)

\* the steps the host thread takes inside a blocking call
HostInCall ==
    \/ SendResume
    \/ NotifyQueueEmpty
    \/ NotifyEndOfStartupReturn
    \/ JoinWorker
    \/ JoinReturn

Fairness ==
    /\ WF_vars(HostInCall)
    /\ \A w \in 1..NumWorkers : WF_vars(WorkerThread(w))

SpecLive == Init /\ [][NextLive]_vars /\ Fairness

(***************************************************************************)
(* Properties of the history batcher.                                      *)
(***************************************************************************)
\* the committed chain of slot in graph g: slot itself and every slot reached
\* from it by following parent edges
RECURSIVE CommittedChain(_, _)
CommittedChain(g, slot) ==
    {slot} \cup (IF slot \in DOMAIN g THEN CommittedChain(g, g[slot]) ELSE {})

FlushDone == last.op = "flush"

\* the updates of the drain window of the last flush that no call carried
Discarded ==
    SelectSeq(last.sorted,
              LAMBDA u : u.slot <= last.slot /\ u \notin Range(Flatten(last.calls)))

\* C1: every update that flush(S) passes to emit_batch has a slot in the
\* committed chain of S (S or a slot reached from S over the parent edges the
\* graph held when flush was called); nothing from an abandoned fork is emitted.
C1_NoAbandonedForkEmitted ==
    FlushDone =>
        \A u \in Range(Flatten(last.calls)) :
            u.slot \in CommittedChain(last.graph, last.slot)

\* a flush that emitted updates of two slots of the chain and dropped an
\* update of an abandoned fork
C1_Witness ==
    /\ FlushDone
    /\ Cardinality({u.slot : u \in Range(Flatten(last.calls))}) >= 2
    /\ \E u \in Range(Discarded) :
          u.slot \notin CommittedChain(last.graph, last.slot)

\* the pending updates of the drain window that are on the committed chain
CommittedPending ==
    SelectSeq(last.sorted,
              LAMBDA u : /\ u.slot <= last.slot
                         /\ u.slot \in CommittedChain(last.graph, last.slot))

\* C2: a flush(S) whose callback never fails calls emit_batch once per
\* distinct (slot, pubkey) pair of the committed pending updates with slot <= S,
\* in ascending (slot, pubkey) order, each batch holding all and only the
\* pending updates of its pair; the other updates with slot <= S are removed
\* unemitted and the updates with slot > S stay pending.
C2_FlushEmitsCommittedOnce ==
    (FlushDone /\ last.result = "ok") =>
        /\ Len(last.calls) = Cardinality({batch_key(u) : u \in Range(CommittedPending)})
        /\ \A i \in DOMAIN last.calls :
              /\ last.calls[i] # << >>
              /\ SameBag(last.calls[i],
                         SelectSeq(CommittedPending,
                                   LAMBDA u : batch_key(u) = batch_key(last.calls[i][1])))
        /\ \A i, j \in DOMAIN last.calls :
              i < j => TupleLess(batch_key(last.calls[i][1]), batch_key(last.calls[j][1]))
        /\ SameBag(updates, SelectSeq(last.sorted, LAMBDA u : u.slot > last.slot))

\* a successful flush of a slot with no parent edge of its own that emitted a
\* batch for that slot, dropped an update and left a later update pending
C2_Witness ==
    /\ FlushDone /\ last.result = "ok"
    /\ last.slot \notin DOMAIN last.graph
    /\ \E i \in DOMAIN last.calls : last.calls[i][1].slot = last.slot
    /\ \E u \in Range(Discarded) : TRUE
    /\ Len(updates) >= 1

(***************************************************************************)
(* Properties of the pipeline.                                             *)
(***************************************************************************)
ItemIds == DOMAIN work_items

\* the items some remote write has carried: put_protobuf_cells_with_retry was
\* called with them (the call has returned, or a worker is still blocked in it)
HandedToRemote ==
    UNION {Range(wr.rows) : wr \in writes}
        \cup UNION {Range(inflight[w].rows) : w \in WorkerIds}

\* the items whose remote write has returned
WriteCompleted == UNION {Range(wr.rows) : wr \in writes}

\* the items held in some worker's pending buffer
Buffered == UNION {Range(pending_account_updates[w]) : w \in WorkerIds}

InQueue == Range(queue)

\* C3 (as claimed): when join() has returned, every work item that an enqueue
\* accepted before has been handed to the remote client, or the abort hook
\* was called.
C3_Claim ==
    hostPc = "joined" =>
        \/ aborted
        \/ \A id \in ItemIds :
              (work_items[id].fate = "queued" /\ work_items[id].phase # "after_join")
                  => id \in HandedToRemote

\* C4 (as claimed): every item the host offered while the pipeline was running
\* (before join) and whose call returned Ok was enqueued, and once a worker
\* has taken it from the queue it has been dispatched to the buffered client
\* (buffered, or carried by a remote write).
C4_Claim ==
    \A id \in ItemIds :
        (work_items[id].phase # "after_join" /\ work_items[id].fate \in {"queued", "skipped"})
            => /\ work_items[id].fate = "queued"
               /\ id \in InQueue \cup Buffered \cup HandedToRemote

\* C5 (as claimed): when notify_end_of_startup() has returned, every account
\* update that was accepted during startup has been written: no worker still
\* holds one in its pending buffer, each was flushed after the signal.
C5_Claim ==
    notify_returned =>
        \A id \in ItemIds :
            (work_items[id].kind = "account" /\ work_items[id].fate = "queued"
                /\ ~work_items[id].after_notify /\ work_items[id].phase = "startup")
                => id \in HandedToRemote

\* C6 (as claimed): notify_end_of_startup() has not returned while a worker
\* whose client was constructed successfully has not acknowledged the signal.
C6_Claim ==
    notify_returned =>
        \A w \in WorkerIds :
            wpc[w] \notin {"spawned", "failed"} => worker_is_startup_done[w]

\* C7 (as claimed): with write_during_startup = false every enqueue issued
\* before the barrier completes is skipped (success, queue unchanged) and every
\* enqueue issued after notify_end_of_startup() returned places its item in
\* the queue.
C7_Claim ==
    ~do_work_on_startup =>
        \A id \in ItemIds :
            /\ ~work_items[id].after_notify => work_items[id].fate = "skipped"
            /\ work_items[id].after_notify => work_items[id].fate \in {"queued", "blocked"}

\* C7 (amended): with write_during_startup = false every enqueue issued before
\* the barrier completes is skipped, and every enqueue issued after
\* notify_end_of_startup() returned is not skipped: it places its item in the
\* queue, or returns the send error when every worker thread has returned.
C7_SkipUntilBarrier ==
    ~do_work_on_startup =>
        \A id \in ItemIds :
            /\ ~work_items[id].after_notify => work_items[id].fate = "skipped"
            /\ work_items[id].after_notify =>
                  \/ work_items[id].fate \in {"queued", "blocked"}
                  \/ work_items[id].fate = "error" /\ Disconnected

\* one enqueue skipped during startup and one placed in the queue after the
\* barrier
C7_Witness ==
    /\ ~do_work_on_startup
    /\ \E id \in ItemIds : ~work_items[id].after_notify /\ work_items[id].fate = "skipped"
    /\ \E id \in ItemIds : work_items[id].after_notify /\ work_items[id].fate = "queued"

\* C8: an enqueue that finds the queue full while a worker thread is alive
\* blocks the host (nothing is added, nothing is dropped); while the queue stays
\* full the call stays blocked; when it returns, its item is the newest item of
\* the queue and the queue is within its capacity.
C8_Backpressure ==
    [][/\ (/\ Len(work_items') = Len(work_items) + 1
           /\ Len(queue) >= capacity /\ ~Disconnected /\ ~should_skip_work)
            => (/\ hostPc' = "send" /\ queue' = queue
                /\ work_items'[Len(work_items')].fate = "blocked")
       /\ (hostPc = "send" /\ Len(queue) >= capacity /\ ~Disconnected)
            => (hostPc' = "send" /\ work_items' = work_items)
       /\ (hostPc = "send" /\ hostPc' # "send" /\ ~Disconnected)
            => (/\ queue' = Append(queue, Len(work_items))
                /\ work_items'[Len(work_items)].fate = "queued"
                /\ Len(queue') <= capacity)
      ]_vars

\* the host is blocked in send() on a full queue with a worker alive
C8_Witness ==
    /\ hostPc = "send"
    /\ Len(queue) = capacity
    /\ ~Disconnected
    /\ work_items[Len(work_items)].fate = "blocked"

\* C9: the work queue never holds more items than its capacity.
C9_QueueWithinCapacity == Len(queue) <= capacity

\* the queue is full
C9_Witness == capacity > 0 /\ Len(queue) = capacity

\* C10 (as claimed): in the backpressure scenario the 5th enqueue is not
\* accepted before the remote write of the 1st item has completed.
C10_Claim ==
    (Len(work_items) >= 5 /\ work_items[5].fate = "queued") => 1 \in WriteCompleted

\* C10 (amended): in the backpressure scenario the enqueue that cannot be
\* accepted before the remote write of the 1st item has completed is the 6th:
\* the queue holds capacity items and the worker one more.
C10_SixthWaitsForFirstWrite ==
    (Len(work_items) >= capacity + 2 /\ work_items[capacity + 2].fate = "queued")
        => 1 \in WriteCompleted

\* the 6th enqueue is blocked on the full queue while the write of the 1st
\* item is in flight and the 5th item is already in the queue
C10_Witness ==
    /\ hostPc = "send"
    /\ Len(work_items) = capacity + 2
    /\ Len(queue) = capacity
    /\ capacity + 1 \in InQueue
    /\ \E w \in WorkerIds : inflight[w].rows = <<1>>

\* C11: when join() has returned, every spawned worker thread has returned
\* (those whose construction failed included), every handle has been joined
\* and the dispatcher's worker list is empty.
C11_NoWorkerLiveAfterJoin ==
    hostPc = "joined" =>
        /\ workers = << >>
        /\ \A w \in WorkerIds : thread_finished(wpc[w])

\* join() has returned after one worker failed to construct and another left
\* its loop on the exit flag
C11_Witness ==
    /\ hostPc = "joined"
    /\ \E w \in WorkerIds : wpc[w] = "failed"
    /\ \E w \in WorkerIds : wpc[w] = "returned"

\* C12 (as claimed): when join() has returned the work queue is drained, it
\* holds no item that was enqueued before join() was called.
C12_Claim ==
    hostPc = "joined" =>
        \A id \in InQueue : work_items[id].phase = "after_join"

\* C13 (as claimed): after join() has returned every enqueue returns the
\* shutdown error, without blocking and without adding an item to the queue.
C13_Claim ==
    \A id \in ItemIds :
        work_items[id].phase = "after_join" =>
            /\ work_items[id].fate = "error"
            /\ id \notin InQueue

\* C13 (amended): after join() has returned no enqueue blocks or adds an item
\* to the queue; the call returns the send error, except that with
\* write_during_startup = false and the end of startup not signalled when the
\* call is made it is still skipped and returns success.
C13_NoEnqueueAfterJoin ==
    \A id \in ItemIds :
        work_items[id].phase = "after_join" =>
            /\ id \notin InQueue
            /\ \/ work_items[id].fate = "error"
               \/ /\ work_items[id].fate = "skipped"
                  /\ ~do_work_on_startup /\ ~work_items[id].after_notify

\* after join() one enqueue got the send error while an item accepted before
\* join() is still in the queue
C13_Witness ==
    /\ hostPc = "joined"
    /\ \E id \in ItemIds :
          work_items[id].phase = "after_join" /\ work_items[id].fate = "error"
    /\ queue # << >>

\* C14 (as claimed): a worker that has returned after observing the exit flag
\* has written every account update of its pending buffer: the buffer is
\* empty and no remote write is outstanding.
C14_Claim ==
    \A w \in WorkerIds :
        wpc[w] = "returned" => pending_account_updates[w] = << >>

\* the account updates the workers have received so far, in arrival order
\* (the queue is first in first out and item ids ascend)
ReceivedCount ==
    Cardinality({id \in ItemIds : work_items[id].fate = "queued" /\ id \notin InQueue})

\* the rows of every multi-row write to table account, issued or completed
AccountWriteRows ==
    {wr.rows : wr \in {x \in writes : x.table = "account"}}
        \cup {inflight[w].rows : w \in {x \in WorkerIds : inflight[x].table = "account"}}

\* C15: the buffered client writes to table account exactly when its pending
\* buffer reaches batch_size: the k-th write carries exactly the updates
\* (k-1)*batch_size+1 .. k*batch_size in arrival order, the updates received
\* since the last full batch are still buffered, and no other write is issued.
C15_WriteExactlyAtBatchSize ==
    LET r == ReceivedCount
        full == IF batch_size = 0 THEN 0 ELSE r \div batch_size
    IN  /\ AccountWriteRows =
              {[i \in 1..batch_size |-> (k - 1) * batch_size + i] : k \in 1..full}
        /\ \A w \in WorkerIds :
              pending_account_updates[w] =
                  [i \in 1..(r - full * batch_size) |-> full * batch_size + i]

\* batch_size = 3: the updates 1, 2, 3 went out in one write and the fourth
\* is buffered
C15_Witness ==
    /\ batch_size = 3
    /\ \E wr \in writes : wr.table = "account" /\ wr.rows = <<1, 2, 3>>
    /\ \E w \in WorkerIds : pending_account_updates[w] = <<4>>

\* C18: in every batch flush emits all elements share one (slot, pubkey) and
\* their write versions are non-decreasing from first to last, whatever the
\* order in which the updates were added.
C18_BatchOrderedByWriteVersion ==
    FlushDone =>
        \A c \in DOMAIN last.calls :
            \A i, j \in DOMAIN last.calls[c] :
                i < j =>
                    /\ batch_key(last.calls[c][i]) = batch_key(last.calls[c][j])
                    /\ last.calls[c][i].write_version <= last.calls[c][j].write_version

\* a flush emitted a batch of two updates with different write versions
C18_Witness ==
    /\ FlushDone
    /\ \E c \in DOMAIN last.calls :
          /\ Len(last.calls[c]) >= 2
          /\ last.calls[c][1].write_version < last.calls[c][2].write_version

\* C20: flush(S) followed immediately by flush(S), with no add or
\* update_slot_parent in between, calls emit_batch zero times during the
\* second call.
C20_SecondFlushEmitsNothing ==
    (FlushDone /\ last.follows.flush /\ last.follows.slot = last.slot)
        => last.calls = << >>

\* the second of two flushes of one slot, the first of which emitted a batch
C20_Witness ==
    /\ FlushDone
    /\ last.follows.flush /\ last.follows.slot = last.slot
    /\ last.follows.emitted >= 1
    /\ last.calls = << >>

(***************************************************************************)
(* Properties of the account_history encoding.                             *)
(***************************************************************************)
EncodeDone == last.op = "update_accounts_batch"

u64_leq(a, b) == a = b \/ u64_less(a, b)

\* rent_epoch, slot, write_version and the observation time never decrease
\* along the run
MonotoneRun(accounts) ==
    \A i \in 2..Len(accounts) :
        /\ u64_leq(accounts[i - 1].rent_epoch, accounts[i].rent_epoch)
        /\ u64_leq(accounts[i - 1].slot, accounts[i].slot)
        /\ u64_leq(accounts[i - 1].write_version, accounts[i].write_version)
        /\ accounts[i - 1].updated_since_epoch <= accounts[i].updated_since_epoch

\* C16 (as claimed): every element of a history batch after the first stores
\* next - prev for rent_epoch, slot, write_version and the observation time
\* (no underflow when the fields do not decrease), stores pubkey, owner and
\* executable empty, and stores lamports and data of next in full.
C16_Claim ==
    (EncodeDone /\ MonotoneRun(last.accounts)) =>
        /\ last.result # "panic"
        /\ \A i \in 2..Len(last.accounts) :
              LET prev == last.accounts[i - 1]
                  next == last.accounts[i]
                  item == last.batch[i]
              IN  /\ item.rent_epoch = wrapping_sub(next.rent_epoch, prev.rent_epoch)
                  /\ item.slot = wrapping_sub(next.slot, prev.slot)
                  /\ item.write_version = wrapping_sub(next.write_version, prev.write_version)
                  /\ item.updated_on = next.updated_since_epoch - prev.updated_since_epoch
                  /\ item.pubkey = << >> /\ item.owner = << >> /\ ~item.executable
                  /\ item.lamports = next.lamports /\ item.data = next.data

\* the carry that digit i of a + b receives from the digits on its right
RECURSIVE add_carry(_, _, _)
add_carry(a, b, i) ==
    IF i = Len(a) THEN 0
    ELSE IF a[i + 1] + b[i + 1] + add_carry(a, b, i + 1) >= 16 THEN 1 ELSE 0

\* a + b modulo 2^64
wrapping_add(a, b) ==
    [i \in 1..Len(a) |-> (a[i] + b[i] + add_carry(a, b, i)) % 16]

\* the fields of DbAccountInfo
AccountFields(a) ==
    [pubkey |-> a.pubkey, owner |-> a.owner, executable |-> a.executable,
     lamports |-> a.lamports, data |-> a.data, rent_epoch |-> a.rent_epoch,
     slot |-> a.slot, write_version |-> a.write_version]

\* the decoder of a differential batch: the first element is taken in full,
\* each later element is summed onto the decoded predecessor, the immutable
\* fields come from the first element
RECURSIVE Decode(_, _)
Decode(batch, i) ==
    IF i = 1 THEN AccountFields(batch[1])
    ELSE LET prev == Decode(batch, i - 1) IN
         [pubkey |-> prev.pubkey, owner |-> prev.owner, executable |-> prev.executable,
          lamports |-> batch[i].lamports, data |-> batch[i].data,
          rent_epoch |-> wrapping_add(prev.rent_epoch, batch[i].rent_epoch),
          slot |-> wrapping_add(prev.slot, batch[i].slot),
          write_version |-> wrapping_add(prev.write_version, batch[i].write_version)]

\* a run of one (slot, pubkey) sorted by write version
SortedRunOfOneKey(accounts) ==
    \A i \in 2..Len(accounts) :
        /\ accounts[i].slot = accounts[1].slot
        /\ accounts[i].pubkey = accounts[1].pubkey
        /\ u64_leq(accounts[i - 1].write_version, accounts[i].write_version)
        /\ accounts[i - 1].updated_since_epoch <= accounts[i].updated_since_epoch

\* C17 (as claimed): for every run of account updates of one (slot, pubkey)
\* sorted by write version, decoding the batch update_accounts_batch builds
\* recovers account updates equal to the originals, in the same order.
C17_Claim ==
    (EncodeDone /\ SortedRunOfOneKey(last.accounts)) =>
        /\ last.result # "panic"
        /\ Len(last.batch) = Len(last.accounts)
        /\ \A i \in DOMAIN last.accounts :
              Decode(last.batch, i) = AccountFields(last.accounts[i])

\* the first account update of an account_history row
FirstOf(wr) == wr.rows[1].batch[1]

HistoryWrites == {wr \in writes : wr.table = "account_history"}

\* C19: for one pubkey and any two (slot, write_version) pairs over the u64
\* range, the pair that is greater in (slot, write_version) order has the row
\* key that is lexicographically smaller: a scan sees the newest first.
C19_RowKeyNewestFirst ==
    \A w1, w2 \in HistoryWrites :
        (/\ FirstOf(w1).pubkey = FirstOf(w2).pubkey
         /\ \/ u64_less(FirstOf(w1).slot, FirstOf(w2).slot)
            \/ /\ FirstOf(w1).slot = FirstOf(w2).slot
               /\ u64_less(FirstOf(w1).write_version, FirstOf(w2).write_version))
            => TupleLess(w2.rows[1].key, w1.rows[1].key)

\* two rows of one pubkey were written: slot 9 with the greatest write
\* version and slot 10 with write version 0; the row of slot 10 sorts first
C19_Witness ==
    \E w1, w2 \in HistoryWrites :
        /\ FirstOf(w1).pubkey = FirstOf(w2).pubkey
        /\ FirstOf(w1).slot = u64(9) /\ FirstOf(w1).write_version = u64_MAX
        /\ FirstOf(w2).slot = u64(10) /\ FirstOf(w2).write_version = u64(0)
        /\ TupleLess(w2.rows[1].key, w1.rows[1].key)

(***************************************************************************)
(* Further properties of the history batcher.                              *)
(***************************************************************************)
\* the last operation was a flush whose rooted slot is lower than the slot of
\* every pending update, and some update is pending
FlushBelowPending ==
    /\ FlushDone
    /\ last.sorted # << >>
    /\ \A u \in Range(last.sorted) : u.slot > last.slot

\* the edges of g with a key above slot
EdgesAbove(g, slot) == [k \in {x \in DOMAIN g : x > slot} |-> g[k]]

\* C21 (as claimed): flush(rooted_slot) with rooted_slot lower than the slot
\* of every pending update emits no batch and leaves the batcher's state
\* unchanged: the same updates are pending and slot_graph is as it was.
C21_Claim ==
    FlushBelowPending =>
        /\ last.calls = << >>
        /\ SameBag(updates, last.sorted)
        /\ parent_map = last.graph

\* C21 (amended): such a flush emits no batch and leaves every pending update
\* pending; of slot_graph it removes the edges with key <= rooted_slot and
\* keeps the others.
C21_NothingEmittedBelowPending ==
    FlushBelowPending =>
        /\ last.calls = << >>
        /\ SameBag(updates, last.sorted)
        /\ parent_map = EdgesAbove(last.graph, last.slot)

\* a flush below every pending update that pruned an edge and kept another
C21_Witness ==
    /\ FlushBelowPending
    /\ \E k \in DOMAIN last.graph : k <= last.slot
    /\ \E k \in DOMAIN last.graph : k > last.slot
    /\ Len(updates) >= 2

\* the updates the last flush handed to emit_batch
Emitted == Range(Flatten(last.calls))

\* C22 (as claimed): an update of the drain window of flush(S) at a slot for
\* which slot_graph holds no edge is discarded, not emitted.
C22_Claim ==
    FlushDone =>
        \A u \in Range(last.sorted) :
            (/\ u.slot <= last.slot
             /\ u.slot \notin DOMAIN last.graph
             /\ u.slot \notin Range(last.graph))
                => u \notin Emitted

\* C22 (amended): an update of the drain window of flush(S) at a slot other
\* than S that no edge of slot_graph names as a parent is discarded; S itself
\* is always in the committed chain, with or without an edge.
C22_UnreachedSlotDiscarded ==
    FlushDone =>
        \A u \in Range(last.sorted) :
            (/\ u.slot <= last.slot
             /\ u.slot # last.slot
             /\ u.slot \notin Range(last.graph))
                => u \notin Emitted

\* a flush of a slot without any edge emitted an update at that slot and
\* discarded an update at a lower slot that no edge names
C22_Witness ==
    /\ FlushDone
    /\ last.graph = << >>
    /\ \E u \in Emitted : u.slot = last.slot
    /\ \E u \in Range(Discarded) : u.slot < last.slot

\* C23: every call flush makes to emit_batch carries at least one update.
C23_NoEmptyBatch ==
    FlushDone => \A c \in DOMAIN last.calls : Len(last.calls[c]) >= 1

\* a flush that closed one batch and opened the next, and skipped an update
\* between them
C23_Witness ==
    /\ FlushDone
    /\ Len(last.calls) >= 2
    /\ Discarded # << >>

\* C24 (as claimed): the parent recorded for a slot is never replaced by a
\* different one: update_slot_parent with a conflicting parent aborts and
\* leaves the recorded parent as it was.
C24_Claim ==
    [][\A s \in DOMAIN parent_map :
          s \in DOMAIN parent_map' => parent_map'[s] = parent_map[s]]_vars

\* C25: after flush(S) slot_graph holds no edge with key <= S, and every edge
\* with key > S that was there before the call is still there with the same
\* parent.
C25_GraphPrunedUpToSlot ==
    FlushDone =>
        /\ \A k \in DOMAIN parent_map : k > last.slot
        /\ \A k \in DOMAIN last.graph :
              k > last.slot => (k \in DOMAIN parent_map /\ parent_map[k] = last.graph[k])

\* a flush that emitted a batch, removed the edge of its own slot and kept
\* the edge of a later slot
C25_Witness ==
    /\ FlushDone
    /\ last.calls # << >>
    /\ last.slot \in DOMAIN last.graph
    /\ \E k \in DOMAIN parent_map : k > last.slot

(***************************************************************************)
(* Further properties of the pipeline.                                     *)
(***************************************************************************)
\* the remote writes that complete in this step
NewWrites == writes' \ writes

\* C26: when a remote write fails, with panic_on_db_errors = true the worker
\* calls the abort hook; with panic_on_db_errors = false it drops the items of
\* that write (they are neither buffered nor queued again) and goes back to
\* its loop; a worker leaves its loop only once the exit flag is set or the
\* dispatcher, and with it the Sender, has been dropped.
C26_WriteFailureHandled ==
    [][\A w \in WorkerIds :
          /\ (\E wr \in NewWrites : wr.worker = w /\ ~wr.ok) =>
                IF panic_on_db_errors
                THEN aborted'
                ELSE /\ ~aborted'
                     /\ wpc'[w] = "loop"
                     /\ \A wr \in NewWrites :
                           Range(wr.rows) \cap
                               (Range(pending_account_updates'[w]) \cup Range(queue')) = {}
          /\ (wpc[w] # "returned" /\ wpc'[w] = "returned") =>
                exit_worker \/ SenderDropped
      ]_vars

\* a worker whose write failed has completed a later write
C26_Witness ==
    /\ ~panic_on_db_errors
    /\ \E f, g \in writes :
          /\ ~f.ok
          /\ g.worker = f.worker
          /\ g.rows[1] > f.rows[1]

\* C27 (as claimed): if the initial handshake of a worker with the remote
\* store fails, ParallelBigtableClient::new returns the connection error.
C27_Claim ==
    (\E w \in WorkerIds : wpc[w] = "failed") => new_returns = "Err"

\* the table a work item of a kind is written to
TableOf(kind) == kind

\* C28 (as claimed): every slot, transaction or block item a worker has
\* received is carried by a single-row remote write to its table.
C28_Claim ==
    \A id \in ItemIds :
        (/\ work_items[id].kind \in {"slot", "tx", "block"}
         /\ work_items[id].fate = "queued"
         /\ id \notin InQueue)
            => \/ \E wr \in writes :
                     wr.table = TableOf(work_items[id].kind) /\ wr.rows = <<id>>
               \/ \E w \in WorkerIds :
                     /\ inflight[w].table = TableOf(work_items[id].kind)
                     /\ inflight[w].rows = <<id>>

\* the places where a received item can be: a worker's buffer, the write a
\* worker is blocked in, a completed write
HoldersOf(id) ==
    Cardinality({w \in WorkerIds : id \in Range(pending_account_updates[w])})
        + Cardinality({w \in WorkerIds : id \in Range(inflight[w].rows)})
        + Cardinality({wr \in writes : id \in Range(wr.rows)})

\* C29: the queue keeps the order of the host's calls and every item is
\* delivered once: the items still queued are in the order they were
\* enqueued, every item already received was enqueued before every item
\* still queued, and no item is held by more than one worker.
C29_FifoDeliveredOnce ==
    /\ \A i, j \in DOMAIN queue : i < j => queue[i] < queue[j]
    /\ \A id \in ItemIds :
          (work_items[id].fate = "queued" /\ id \notin InQueue)
              => \A q \in InQueue : id < q
    /\ \A id \in ItemIds : HoldersOf(id) <= 1

\* two workers hold one account update each while a third item is queued
C29_Witness ==
    /\ queue # << >>
    /\ \E v, w \in WorkerIds :
          /\ v # w
          /\ pending_account_updates[v] # << >>
          /\ pending_account_updates[w] # << >>

\* C30 (as claimed): once a Rooted update of a slot has been accepted, a later
\* update of that slot with status Processed or Confirmed is never written to
\* table slot.
C30_Claim ==
    \A i, j \in ItemIds :
        (/\ i < j
         /\ work_items[i].kind = "slot" /\ work_items[j].kind = "slot"
         /\ work_items[i].fate = "queued"
         /\ work_items[i].slot = work_items[j].slot
         /\ work_items[i].status = "rooted"
         /\ work_items[j].status \in {"processed", "confirmed"})
            => ~\E wr \in writes : wr.table = "slot" /\ wr.rows = <<j>>

\* the workers whose BigtableClientWorker::new returned Ok
Constructed ==
    {w \in WorkerIds : wpc[w] \in {"loop", "recv", "timed_out", "rpc", "returned"}}

\* the workers that have acknowledged the end of startup
Acked == {w \in WorkerIds : worker_is_startup_done[w]}

\* C31: startup_done_count <= initialized_worker_count <= number of workers
\* whose client was constructed; only constructed workers acknowledge, and
\* each worker is counted at most once in each counter (the counters equal
\* the number of workers that acknowledged, respectively were constructed).
C31_CountersOrdered ==
    /\ startup_done_count <= initialized_worker_count
    /\ initialized_worker_count <= Cardinality(Constructed)
    /\ startup_done_count = Cardinality(Acked)
    /\ initialized_worker_count = Cardinality(Constructed)
    /\ Acked \subseteq Constructed

\* one worker failed to construct, the other has acknowledged the end of startup
C31_Witness ==
    /\ \E w \in WorkerIds : wpc[w] = "failed"
    /\ initialized_worker_count = 1
    /\ startup_done_count = 1

\* C32 (as claimed): in every step in which a call of notify_end_of_startup()
\* returns, no item that was enqueued is still in the queue or in a remote
\* write a worker is blocked in; the end-of-startup flag is stored only when
\* the queue is empty; a worker acknowledges only in the Timeout arm of a
\* receive that timed out, when it handles no item.
C32_Claim ==
    [][/\ (hostPc = "notify_wait_acks" /\ hostPc' # "notify_wait_acks") =>
             \A id \in ItemIds :
                 work_items[id].fate = "queued" =>
                     /\ id \notin Range(queue')
                     /\ \A w \in WorkerIds : id \notin Range(inflight'[w].rows)
       /\ (~is_startup_done /\ is_startup_done') => queue = << >>
       /\ (startup_done_count' # startup_done_count) =>
             \E w \in WorkerIds :
                   /\ wpc[w] = "timed_out" /\ wpc'[w] = "loop"
                   /\ inflight[w] = NoWrite
      ]_vars

\* C32 (amended): in the step in which notify_end_of_startup()
\* returns for the first time, no item that was enqueued is still in the
\* queue or in a remote write a worker is blocked in; the end-of-startup flag
\* is stored only when the queue is empty; a worker acknowledges only in the
\* Timeout arm of a receive that timed out, when it handles no item.
C32_BarrierAfterAllHandled ==
    [][/\ (~notify_returned /\ notify_returned') =>
             \A id \in ItemIds :
                 work_items[id].fate = "queued" =>
                     /\ id \notin Range(queue')
                     /\ \A w \in WorkerIds : id \notin Range(inflight'[w].rows)
       /\ (~is_startup_done /\ is_startup_done') => queue = << >>
       /\ (startup_done_count' # startup_done_count) =>
             \E w \in WorkerIds :
                   /\ wpc[w] = "timed_out" /\ wpc'[w] = "loop"
                   /\ inflight[w] = NoWrite
                   /\ ~worker_is_startup_done[w] /\ worker_is_startup_done'[w]
      ]_vars

\* the barrier has returned after both workers acknowledged, and a remote
\* write carries an item that was enqueued before the call
C32_Witness ==
    /\ notify_returned
    /\ startup_done_count = NumWorkers
    /\ \E wr \in writes : \E id \in Range(wr.rows) : ~work_items[id].after_notify

(***************************************************************************)
(* Further properties of the history batcher.                              *)
(***************************************************************************)
\* the elements of s whose order key is k, in the order of s
WithKey(s, k) == SelectSeq(s, LAMBDA u : order_key(u) = k)

\* C33 (as claimed): flush sorts stably: the updates with one
\* (slot, pubkey, write_version) that a flush emits are emitted in the order
\* in which they were added.
C33_Claim ==
    [][last'.op = "flush" =>
          \A k \in {order_key(u) : u \in Range(updates)} :
              LET emitted == WithKey(Flatten(last'.calls), k) IN
              last'.result = "ok" /\ emitted # << >> => emitted = WithKey(updates, k)
      ]_vars

\* C34 (as claimed): the committed chain of a flush(S) that follows a
\* flush(R), R < S, holds no slot <= R, and no update at a slot <= R (added
\* after flush(R), which drained every earlier one) is emitted by flush(S).
C34_Claim ==
    [][(last'.op = "flush" /\ RootedSlot > 0 /\ last'.slot > RootedSlot) =>
          /\ \A c \in extract_chain_of(parent_map, last'.slot) : c > RootedSlot
          /\ \A u \in Range(Flatten(last'.calls)) : u.slot > RootedSlot
      ]_vars

\* C35: once the exit flag is set no worker starts a receive: a worker that
\* is between receives returns, a worker that is inside recv_timeout
\* completes that one receive, and a remote write that is under way is
\* completed (recorded as a write) before the worker goes on.
C35_ExitObservedBetweenReceives ==
    [][\A w \in WorkerIds :
          /\ (exit_worker /\ wpc'[w] = "recv") => wpc[w] = "recv"
          /\ (exit_worker /\ wpc[w] = "loop" /\ wpc'[w] # "loop") => wpc'[w] = "returned"
          /\ (wpc[w] = "rpc" /\ wpc'[w] # "rpc") =>
                \E wr \in writes' \ writes :
                    wr.worker = w /\ wr.rows = inflight[w].rows
      ]_vars

\* the exit flag is set while one worker is in a remote write and another has
\* already returned
C35_Witness ==
    /\ exit_worker
    /\ \E v, w \in WorkerIds : wpc[v] = "rpc" /\ wpc[w] = "returned"

(***************************************************************************)
(* Progress of the pipeline under fair scheduling.                         *)
(***************************************************************************)
\* C36: a join() that was entered eventually returns, unless the abort hook
\* ends the process first; the queue may hold items and the end-of-startup
\* signal need not have been given.
C36_JoinReturns == (hostPc = "join") ~> (hostPc = "joined" \/ aborted)

\* join has returned while the queue still holds an item and the
\* end-of-startup signal was never given
C36_Witness ==
    /\ hostPc = "joined"
    /\ queue # << >>
    /\ ~is_startup_done

\* C38 (as claimed): a notify_end_of_startup() that was entered while join()
\* had not been called eventually returns (unless the abort hook ends the
\* process first).
C38_Claim ==
    (hostPc = "notify_wait_empty" /\ ~exit_worker) ~> (hostPc = "ready" \/ aborted)

\* the calls the last flush would have made had the callback never failed
CallsWithoutFailure ==
    flush_loop(SubSeq(last.sorted, 1, drain_end(last.sorted, last.slot)),
               extract_chain_of(last.graph, last.slot), flush_start, 0).calls

\* C39: when a call of emit_batch fails during flush(S), flush returns the
\* error and that call is its last one; afterwards no update with slot <= S
\* is pending (what was left of the drain window is gone, the updates above
\* S are kept) and slot_graph holds no key <= S.
C39_ErrorEndsFlush ==
    (FlushDone /\ last.failed > 0) =>
        /\ last.result = "err"
        /\ last.failed = Len(last.calls)
        /\ last.calls = SubSeq(CallsWithoutFailure, 1, last.failed)
        /\ updates = SelectSeq(last.sorted, LAMBDA u : u.slot > last.slot)
        /\ \A k \in DOMAIN parent_map : k > last.slot

\* the first call failed while more batches were due and slot_graph held an
\* edge of the window
C39_Witness ==
    /\ FlushDone
    /\ last.failed = 1
    /\ Len(CallsWithoutFailure) > 1
    /\ \E k \in DOMAIN last.graph : k <= last.slot

(***************************************************************************)
(* Further properties of account batching.                                 *)
(***************************************************************************)
\* C37: for batch_size >= 1 the pending buffer of a worker holds at most
\* batch_size - 1 updates whenever update_account is not running, so an
\* update waits for at most batch_size - 1 successors before it is written.
C37_PendingBelowBatchSize ==
    batch_size >= 1 =>
        \A w \in WorkerIds : Len(pending_account_updates[w]) <= batch_size - 1

\* with batch_size >= 2 a batch has been written and batch_size - 1 later
\* updates wait in the buffer
C37_Witness ==
    /\ batch_size >= 2
    /\ \E w \in WorkerIds : Len(pending_account_updates[w]) = batch_size - 1
    /\ \E wr \in writes : wr.table = "account"

\* C40: while the multi-row write of update_account is under way the pending
\* buffer is already empty, and the updates of a write that failed are in no
\* buffer, in no write under way and in no other write: they are not retried.
C40_FailedBatchNotRetained ==
    /\ \A w \in WorkerIds :
          inflight[w].table = "account" => pending_account_updates[w] = << >>
    /\ \A wr \in writes :
          (wr.table = "account" /\ ~wr.ok) =>
              \A id \in Range(wr.rows) :
                  /\ id \notin Buffered
                  /\ \A w \in WorkerIds : id \notin Range(inflight[w].rows)
                  /\ \A other \in writes \ {wr} : id \notin Range(other.rows)

\* a batch of two updates failed and the next two updates were written as a
\* new batch
C40_Witness ==
    /\ batch_size = 2
    /\ \E f, g \in writes :
          /\ f.table = "account" /\ ~f.ok /\ Len(f.rows) = 2
          /\ g.table = "account" /\ g.ok
          /\ \A i \in Range(f.rows), j \in Range(g.rows) : i < j

====
